---- MODULE Spec2Model ----
(***************************************************************************)
(* Model of the CLSI guideline pipeline: hello.py ("clsi guideline to      *)
(* protocol") and main.py ("clsi_guidelines_minimiser_agent").             *)
(*                                                                         *)
(* Text is a sequence of one-character strings.  Three specifications      *)
(* share the variables:                                                    *)
(*   SpecChunk : chunk_text applied to a bounded text and window size      *)
(*   SpecTrim  : trim_latex_content applied to a bounded file              *)
(*   SpecRun   : process_clsi_guideline, stage by stage                    *)
(***************************************************************************)
EXTENDS Integers, Sequences, FiniteSets, TLC

(* ------------------------------ bounds --------------------------------- *)
MaxTextLen == 5
MaxChars == 4
MaxFileLen == 5
MaxLines == 23
MaxWords == 15
SmallMaxWords == 2
MaxCalls == 2
MaxPages == 2
MaxRuns == 2

(* --------------------------- characters -------------------------------- *)
BS == "\\"
NL == "\n"
SP == " "
LB == "{"
RB == "}"
Letters ==
    {"a", "b", "c", "d", "e", "f", "g", "h", "i", "j", "k", "l", "m", "n",
     "o", "p", "q", "r", "s", "t", "u", "v", "w", "x", "y", "z",
     "C", "D", "E", "F", "I", "N", "O", "P", "R"}
TextChars == {"a", "b"}
FileChars == {BS, NL, SP, LB, RB, "a"}

Min(a, b) == IF a < b THEN a ELSE b

BSeq(S, n) == UNION {[1..k -> S] : k \in 0..n}

(* ------------------------------ chunk_text ----------------------------- *)
RECURSIVE PyRange(_, _, _)
PyRange(i, stop, step) ==
    IF i >= stop THEN <<>> ELSE <<i>> \o PyRange(i + step, stop, step)

\* text[a:b] for 0 <= a <= b
Slice(t, a, b) == SubSeq(t, a + 1, Min(b, Len(t)))

\* variants of chunk_text with a wrong window end
chunk_text_gap(t, m) ==
    LET r == PyRange(0, Len(t), m)
    IN  [k \in DOMAIN r |-> Slice(t, r[k], r[k] + m - 1)]

chunk_text_overlap(t, m) ==
    LET r == PyRange(0, Len(t), m)
    IN  [k \in DOMAIN r |-> Slice(t, r[k], r[k] + m + 1)]

chunk_text(t, m) ==
    LET r == PyRange(0, Len(t), m)
    IN  [k \in DOMAIN r |-> Slice(t, r[k], r[k] + m)]

\* ''.join(ss[lo..hi]), in order
RECURSIVE JoinRange(_, _, _)
JoinRange(ss, lo, hi) ==
    IF lo > hi THEN <<>>
    ELSE IF lo = hi THEN ss[lo]
    ELSE LET mid == (lo + hi) \div 2
         IN  JoinRange(ss, lo, mid) \o JoinRange(ss, mid + 1, hi)

Join(ss) == JoinRange(ss, 1, Len(ss))

(* ----------------------- estimate_latex_word_count --------------------- *)
\* The pattern  \\[^ ]+{.*?}|\\[a-zA-Z]+|\{|\}  tried at position i of t.
\* Each operator gives the index of the last matched character, or 0.

\* the lazy  {.*?}  starting at the brace at position b: the first closing
\* brace after b with no newline in between ('.' does not match a newline)
BraceEnd(t, b) ==
    LET C == {c \in (b + 1)..Len(t) :
                 /\ t[c] = RB
                 /\ \A j \in (b + 1)..(c - 1) : t[j] # NL}
    IN  IF C = {} THEN 0 ELSE CHOOSE c \in C : \A d \in C : c <= d

\* first alternative: backslash, greedy [^ ]+, then the braced argument
Alt1End(t, i) ==
    IF t[i] # BS THEN 0
    ELSE LET K == {k \in 1..(Len(t) - i - 1) :
                      /\ \A j \in (i + 1)..(i + k) : t[j] # SP
                      /\ t[i + k + 1] = LB
                      /\ BraceEnd(t, i + k + 1) # 0}
         IN  IF K = {} THEN 0
             ELSE BraceEnd(t, i + 1 + (CHOOSE k \in K : \A l \in K : l <= k))

\* second alternative: backslash followed by a greedy run of letters
Alt2End(t, i) ==
    IF t[i] # BS THEN 0
    ELSE LET K == {k \in 1..(Len(t) - i) :
                      \A j \in (i + 1)..(i + k) : t[j] \in Letters}
         IN  IF K = {} THEN 0
             ELSE i + (CHOOSE k \in K : \A l \in K : l <= k)

MatchEnd(t, i) ==
    IF Alt1End(t, i) # 0 THEN Alt1End(t, i)
    ELSE IF Alt2End(t, i) # 0 THEN Alt2End(t, i)
    ELSE IF t[i] \in {LB, RB} THEN i
    ELSE 0

\* re.sub(pattern, '', t) from position i on
RECURSIVE ReSub(_, _)
ReSub(t, i) ==
    IF i > Len(t) THEN <<>>
    ELSE IF MatchEnd(t, i) # 0 THEN ReSub(t, MatchEnd(t, i) + 1)
    ELSE <<t[i]>> \o ReSub(t, i + 1)

IsWhite(c) == c \in {SP, NL}

\* len(s.split())
SplitCount(s) ==
    Cardinality({i \in 1..Len(s) :
                    /\ ~IsWhite(s[i])
                    /\ (i = 1 \/ IsWhite(s[i - 1]))})

\* estimate on a file that reads without error
WordsOf(t) == SplitCount(ReSub(t, 1))

\* variant: the count of the text whether or not the read succeeded
estimate_ignoring_read_error(t, ok) == WordsOf(t)

\* a failed read is caught and reported as 0
estimate_latex_word_count(t, ok) == IF ok THEN WordsOf(t) ELSE 0

(* ----------------------------- readlines ------------------------------- *)
\* f.readlines(): lines keep their terminating newline; a last line without
\* one is a line too
LineEnds(t) ==
    {i \in 1..Len(t) : t[i] = NL \/ i = Len(t)}

readlines(t) ==
    LET E == LineEnds(t)
        End(k) == CHOOSE e \in E : Cardinality({d \in E : d < e}) = k - 1
    IN  [k \in 1..Cardinality(E) |->
            SubSeq(t, (IF k = 1 THEN 1 ELSE End(k - 1) + 1), End(k))]

(* ------------------- binary64 arithmetic of the trim ------------------- *)
\* max_words / word_count and len(lines) * fraction are float operations.
\* A float is modelled exactly as <<limbs, scale>>: limbs is the significand
\* in base 2^LimbBits, most significant limb first, and the value is
\* limbs * 2^(-scale).  A binary64 significand has Precision bits: a
\* leading 1 and QuotLimbs limbs.
Precision == 53
LimbBits == (Precision - 1) \div 4
QuotLimbs == (Precision - 1) \div LimbBits

RECURSIVE Pow2(_)
Pow2(n) == IF n = 0 THEN 1 ELSE 2 * Pow2(n - 1)

Base == Pow2(LimbBits)

\* smallest e with m * 2^e >= w, for 0 < m
RECURSIVE NormExp(_, _, _)
NormExp(m, w, e) == IF m >= w THEN e ELSE NormExp(2 * m, w, e + 1)

\* n further quotient limbs of r / w (r < w), then the remainder
RECURSIVE DivLimbs(_, _, _)
DivLimbs(r, w, n) ==
    IF n = 0 THEN [limbs |-> <<>>, rem |-> r]
    ELSE LET rest == DivLimbs((r * Base) % w, w, n - 1)
         IN  [limbs |-> <<(r * Base) \div w>> \o rest.limbs, rem |-> rest.rem]

\* limbs + 1
RECURSIVE Incr(_)
Incr(limbs) ==
    IF limbs = <<>> THEN <<1>>
    ELSE IF limbs[Len(limbs)] < Base - 1
         THEN SubSeq(limbs, 1, Len(limbs) - 1) \o <<limbs[Len(limbs)] + 1>>
         ELSE Incr(SubSeq(limbs, 1, Len(limbs) - 1)) \o <<0>>

LowBit(limbs) == limbs[Len(limbs)] % 2

\* round-half-to-even of the significand `kept` given what was cut off
RoundEven(kept, half, sticky) ==
    IF half /\ (sticky \/ LowBit(kept) = 1) THEN Incr(kept) ELSE kept

\* fl(m / w) for integers 0 < m <= w
FloatDiv(m, w) ==
    LET e == NormExp(m, w, 0)
        d == DivLimbs(m * Pow2(e) - w, w, QuotLimbs)
    IN  <<RoundEven(<<1>> \o d.limbs, 2 * d.rem >= w, 2 * d.rem > w),
          e + Precision - 1>>

\* limbs * n, carry entering at the least significant end
RECURSIVE MulSmall(_, _, _)
MulSmall(limbs, n, carry) ==
    IF limbs = <<>> THEN (IF carry = 0 THEN <<>> ELSE <<carry>>)
    ELSE LET v == limbs[Len(limbs)] * n + carry
         IN  MulSmall(SubSeq(limbs, 1, Len(limbs) - 1), n, v \div Base)
                 \o <<v % Base>>

RECURSIVE BitLen(_)
BitLen(n) == IF n = 0 THEN 0 ELSE 1 + BitLen(n \div 2)

LimbsBitLen(limbs) == LimbBits * (Len(limbs) - 1) + BitLen(limbs[1])

\* limbs \div 2
Halve(limbs) ==
    [i \in 1..Len(limbs) |->
        (limbs[i] \div 2)
            + (IF i > 1 THEN (limbs[i - 1] % 2) * (Base \div 2) ELSE 0)]

\* cut off the `cut` low bits, remembering the last bit cut (half) and
\* whether any lower bit was set (sticky)
RECURSIVE CutBits(_, _, _, _)
CutBits(limbs, cut, half, sticky) ==
    IF cut = 0 THEN [limbs |-> limbs, half |-> half, sticky |-> sticky]
    ELSE CutBits(Halve(limbs), cut - 1, LowBit(limbs) = 1, sticky \/ half)

\* fl(n * x) for an integer 0 < n < Base and a float x
FloatMul(n, x) ==
    LET p == MulSmall(x[1], n, 0)
        cut == LimbsBitLen(p) - Precision
    IN  IF cut <= 0 THEN <<p, x[2]>>
        ELSE LET c == CutBits(p, cut, FALSE, FALSE)
             IN  <<RoundEven(c.limbs, c.half, c.sticky), x[2] - cut>>

RECURSIVE LimbsToInt(_)
LimbsToInt(limbs) ==
    IF limbs = <<>> THEN 0
    ELSE Base * LimbsToInt(SubSeq(limbs, 1, Len(limbs) - 1))
             + limbs[Len(limbs)]

\* int(x) for a float x >= 0 with a positive scale
FloatToInt(x) ==
    LET drop == x[2] \div LimbBits
    IN  IF Len(x[1]) <= drop THEN 0
        ELSE LimbsToInt(SubSeq(x[1], 1, Len(x[1]) - drop))
                 \div Pow2(x[2] % LimbBits)

\* floor(n * m / w) in exact arithmetic
KeepExact(n, m, w) == (n * m) \div w

\* variant: the line count rounded up instead of truncated
KeepCountCeil(n, m, w) == (n * m + w - 1) \div w

\* int(n * (m / w)) as the interpreter computes it, for 0 <= m <= w
KeepCount(n, m, w) ==
    IF n = 0 \/ m = 0 THEN 0
    ELSE FloatToInt(FloatMul(n, FloatDiv(m, w)))

(* --------------------------- extract_pdf_text -------------------------- *)
\* stands for the en dash U+2013 of the main.py messages
DASH == "-"

ErrorWord ==
    <<"E", "r", "r", "o", "r">>

\* "Error extracting text from PDF: "
ErrorMarker ==
    <<"E", "r", "r", "o", "r", SP, "e", "x", "t", "r", "a", "c", "t", "i",
      "n", "g", SP, "t", "e", "x", "t", SP, "f", "r", "o", "m", SP, "P",
      "D", "F", ":", SP>>

\* hello.py: "No text extracted via OCR."
SentinelHello ==
    <<"N", "o", SP, "t", "e", "x", "t", SP, "e", "x", "t", "r", "a", "c",
      "t", "e", "d", SP, "v", "i", "a", SP, "O", "C", "R", ".">>

\* main.py: "No text extracted from pages 1-76 via OCR."
SentinelMain ==
    <<"N", "o", SP, "t", "e", "x", "t", SP, "e", "x", "t", "r", "a", "c",
      "t", "e", "d", SP, "f", "r", "o", "m", SP, "p", "a", "g", "e", "s",
      SP, "1", DASH, "7", "6", SP, "v", "i", "a", SP, "O", "C", "R", ".">>

Sentinel(v) == IF v = "main" THEN SentinelMain ELSE SentinelHello

\* process_clsi_guideline of main.py passes start_page=0, end_page=76
StartPage == 0
EndPage == 76

\* str(e) of the exception raised at the failing call
ExcText(f) ==
    IF f = "open" THEN <<"n", "o", SP, "f", "i", "l", "e">>
    ELSE IF f = "get_text" THEN <<"p", "a", "g", "e">>
    ELSE IF f = "convert" THEN <<"p", "o", "p", "p", "l", "e", "r">>
    ELSE <<"o", "c", "r">>

\* s.strip() is empty
IsBlank(s) == \A i \in 1..Len(s) : IsWhite(s[i])

\* truthiness of text.strip()
HasTextNoStrip(s) == s # <<>>

HasText(s) == ~IsBlank(s)

\* pat in s
Contains(s, pat) ==
    \E i \in 1..(Len(s) - Len(pat) + 1) : SubSeq(s, i, i + Len(pat) - 1) = pat

\* 1-based indices of the pages visited: every page in hello.py,
\* range(start_page, min(end_page, len(doc))) in main.py
PageRange(v, doc) ==
    IF v = "main"
    THEN [k \in 1..(Min(EndPage, Len(doc)) - StartPage) |-> StartPage + k]
    ELSE [k \in 1..Len(doc) |-> k]

\* the loop over page.get_text(): non-empty page texts, each followed by "\n"
EmbeddedText(v, doc) ==
    LET r == PageRange(v, doc)
        texts == [k \in DOMAIN r |-> doc[r[k]].emb]
        kept == SelectSeq(texts, LAMBDA t : t # <<>>)
    IN  Join([k \in DOMAIN kept |-> kept[k] \o <<NL>>])

\* convert_from_path over first_page..last_page (every page in hello.py),
\* then image_to_string of every image followed by "\n"
OcrText(v, doc) ==
    LET r == PageRange(v, doc)
    IN  Join([k \in DOMAIN r |-> doc[r[k]].ocr \o <<NL>>])

\* variant: the exception leaves the function
OnExceptionPropagate(f, open) ==
    [text |-> <<>>, raised |-> TRUE, doc_open |-> open]

\* except Exception as e: return f"Error extracting text from PDF: {str(e)}"
OnException(f, open) ==
    [text |-> ErrorMarker \o ExcText(f), raised |-> FALSE, doc_open |-> open]

\* f names the call that fails in this run, if it is reached:
\* "open" fitz.open, "get_text" page.get_text, "convert" convert_from_path,
\* "ocr" image_to_string, "none" nothing fails
extract_pdf_text(v, doc, f) ==
    IF f = "open" THEN OnException(f, FALSE)
    ELSE IF f = "get_text" /\ Len(PageRange(v, doc)) > 0
    THEN OnException(f, TRUE)
    ELSE IF HasText(EmbeddedText(v, doc))
    THEN [text |-> EmbeddedText(v, doc), raised |-> FALSE, doc_open |-> FALSE]
    ELSE IF f = "convert" THEN OnException(f, FALSE)
    ELSE IF f = "ocr" /\ Len(PageRange(v, doc)) > 0
    THEN OnException(f, FALSE)
    ELSE [text |-> IF HasText(OcrText(v, doc)) THEN OcrText(v, doc)
                   ELSE Sentinel(v),
          raised |-> FALSE, doc_open |-> FALSE]

(* ------------------------------ state ---------------------------------- *)
VARIABLES
    text,        \* chunk_text: the text argument
    max_chars,   \* chunk_text: the window size argument
    chunks,      \* chunk_text: the returned list
    chunked,     \* chunk_text has returned
    file,        \* contents of the LaTeX file on disk
    readable,    \* the file opens and decodes for reading
    max_words,   \* trim_latex_content: the max_words argument
    word_count,  \* trim_latex_content: the local word_count
    file0,       \* contents of the file when the last trim call started
    wrote,       \* the last trim call opened the file for writing
    calls,       \* number of trim calls made
    variant,     \* "hello" or "main": which script runs
    pc,          \* stage reached by process_clsi_guideline
    exit_stage,  \* stage at which sys.exit(1) was called, or "none"
    path_exists, \* os.path.exists(pdf_path)
    path_is_pdf, \* pdf_path.lower().endswith('.pdf')
    pages,       \* the PDF: per page its embedded text and its OCR text
    fault,       \* the library call that fails while extracting
    pdf_text,    \* the value returned by extract_pdf_text
    raised,      \* an exception left extract_pdf_text
    doc_open,    \* the fitz document was opened and not closed
    tasks,       \* the text handed to create_tasks and built into tasks
    orch_input,  \* the tasks the orchestrator was called with
    raw,         \* results.tasks_output[0].raw
    meta_file,   \* contents of metadata.json
    meta_exists, \* metadata.json exists
    qa_file,     \* qa_report_<code>.json: "absent", "json" or "text"
    runs,        \* runs started in this working directory
    stages,      \* the stages this run has entered, in order
    left_open    \* files this run opened with open() and never closed

chunkVars == <<text, max_chars, chunks, chunked>>
trimVars == <<file, readable, max_words, word_count, file0, wrote, calls>>
pdfVars == <<variant, path_exists, path_is_pdf, pages, fault>>
runVars == <<pc, exit_stage, pdf_text, raised, doc_open, tasks, orch_input,
             raw, meta_file, meta_exists, qa_file, runs, stages, left_open>>
vars == <<chunkVars, trimVars, pdfVars, runVars>>

(* --------------------------- trim_latex_content ------------------------ *)
\* lines[:k] written back with writelines
TrimmedText(t, m, wc) ==
    LET lines == readlines(t)
    IN  Join(SubSeq(lines, 1, KeepCount(Len(lines), m, wc)))

\* variant: a document exactly at the target is trimmed too
UnderBudgetStrict(wc, m) == wc < m

UnderBudget(wc, m) == wc <= m

\* the file after trim_latex_content(file, m); a failure inside the try
\* block is caught and leaves the file as it was
trim_latex_content(t, ok, m) ==
    LET wc == estimate_latex_word_count(t, ok)
    IN  IF UnderBudget(wc, m) THEN [file |-> t, wrote |-> FALSE, wc |-> wc]
        ELSE IF ~ok THEN [file |-> t, wrote |-> FALSE, wc |-> wc]
        ELSE [file |-> TrimmedText(t, m, wc), wrote |-> TRUE, wc |-> wc]

(* ------------------------ SpecChunk: chunk_text ------------------------ *)
NoTasks == [given |-> FALSE, meta_text |-> <<>>, chunks |-> <<>>]

RunIdle ==
    /\ variant = "main" /\ pc = "idle" /\ exit_stage = "none"
    /\ path_exists = TRUE /\ path_is_pdf = TRUE /\ pages = <<>>
    /\ fault = "none" /\ pdf_text = <<>> /\ raised = FALSE
    /\ doc_open = FALSE /\ tasks = NoTasks /\ orch_input = NoTasks
    /\ raw = <<>> /\ meta_file = <<>> /\ meta_exists = FALSE
    /\ qa_file = "absent" /\ runs = 0
    /\ stages = <<>> /\ left_open = {}

ChunkIdle ==
    /\ file = <<>> /\ readable = TRUE /\ max_words = 0 /\ word_count = 0
    /\ file0 = <<>> /\ wrote = FALSE /\ calls = 0

InitChunk ==
    /\ text \in BSeq(TextChars, MaxTextLen)
    /\ max_chars \in 1..MaxChars
    /\ chunks = <<>>
    /\ chunked = FALSE
    /\ ChunkIdle
    /\ RunIdle

ChunkText ==
    /\ ~chunked
    /\ chunks' = chunk_text(text, max_chars)
    /\ chunked' = TRUE
    /\ UNCHANGED <<text, max_chars, trimVars, pdfVars, runVars>>

NextChunk == ChunkText

SpecChunk == InitChunk /\ [][NextChunk]_vars

(* ------------------- SpecTrim: trim_latex_content ---------------------- *)
Repeat(line, k) == Join([i \in 1..k |-> line])

ShortFiles == BSeq(FileChars, MaxFileLen)
LongFiles == {Repeat(<<"a", NL>>, k) : k \in 0..MaxLines}

TrimIdle ==
    /\ text = <<>> /\ max_chars = 1 /\ chunks = <<>> /\ chunked = FALSE

InitTrim ==
    /\ \/ file \in ShortFiles /\ max_words \in 0..SmallMaxWords
       \/ file \in LongFiles /\ max_words \in 0..MaxWords
    /\ readable \in BOOLEAN
    /\ word_count = 0
    /\ file0 = file
    /\ wrote = FALSE
    /\ calls = 0
    /\ TrimIdle
    /\ RunIdle

TrimLatexContent ==
    /\ calls < MaxCalls
    /\ LET r == trim_latex_content(file, readable, max_words)
       IN  /\ file' = r.file
           /\ wrote' = r.wrote
           /\ word_count' = r.wc
    /\ file0' = file
    /\ calls' = calls + 1
    /\ UNCHANGED <<readable, max_words, chunkVars, pdfVars, runVars>>

NextTrim == TrimLatexContent

SpecTrim == InitTrim /\ [][NextTrim]_vars

(* ---------------------------- json ------------------------------------- *)
\* json.loads / json.dump restricted to the texts the model produces: an
\* empty object, a number written with the digit 1, or something else
StripWs(s) ==
    LET N == {i \in 1..Len(s) : ~IsWhite(s[i])}
    IN  IF N = {} THEN <<>>
        ELSE SubSeq(s, CHOOSE i \in N : \A j \in N : i <= j,
                       CHOOSE i \in N : \A j \in N : j <= i)

json_loads(s) ==
    LET c == StripWs(s)
    IN  IF Len(c) >= 2 /\ c[1] = LB /\ c[Len(c)] = RB
           /\ \A i \in 2..(Len(c) - 1) : IsWhite(c[i])
        THEN [ok |-> TRUE, kind |-> "object", digits |-> <<>>]
        ELSE IF c # <<>> /\ \A i \in 1..Len(c) : c[i] = "1"
        THEN [ok |-> TRUE, kind |-> "number", digits |-> c]
        ELSE [ok |-> FALSE, kind |-> "none", digits |-> <<>>]

\* json.dump(value, f, indent=2)
json_dump(v) == IF v.kind = "object" THEN <<LB, RB>> ELSE v.digits

(* ----------------------- process_clsi_guideline ------------------------ *)
\* pdf_text[:n] of the metadata task and the text that is chunked
MetaPrefixHello == 200000
MetaPrefixMain == 50000
ChunkPrefixHello == 200000
DefaultMaxChars == 5000
TrimWordsHello == 4000
TrimWordsMain == 10000

MetaPrefix(v) == IF v = "main" THEN MetaPrefixMain ELSE MetaPrefixHello

ChunkSource(v, t) == IF v = "main" THEN t ELSE Slice(t, 0, ChunkPrefixHello)

TrimWords(v) == IF v = "main" THEN TrimWordsMain ELSE TrimWordsHello

\* variant: the check of hello.py lines 320-322 is active in both scripts
ExitsAfterExtractBoth(v, t) == Contains(t, ErrorWord) \/ IsBlank(t)

\* if "Error" in pdf_text or not pdf_text.strip(): sys.exit(1)
\* (commented out in hello.py)
ExitsAfterExtract(v, t) ==
    v = "main" /\ (Contains(t, ErrorWord) \/ IsBlank(t))

\* create_tasks of hello.py loads metadata.json and the QA report when they
\* exist; json.load raises on a file that is not JSON
CreateTasksRaises(v, mexists, mfile, qa) ==
    /\ v = "hello"
    /\ \/ mexists /\ ~json_loads(mfile).ok
       \/ qa = "text"

\* json.load(open(...)) of hello.py lines 230 and 271: the file object is
\* never closed by the code; the QA report is reached only when the load of
\* metadata.json did not raise
CreateTasksOpens(v, mexists, mfile, qa) ==
    IF v # "hello" THEN {}
    ELSE (IF mexists THEN {"metadata.json"} ELSE {})
             \cup (IF (mexists => json_loads(mfile).ok) /\ qa # "absent"
                   THEN {"qa_report"} ELSE {})

create_tasks(v, t) ==
    [given |-> TRUE,
     meta_text |-> Slice(t, 0, MetaPrefix(v)),
     chunks |-> chunk_text(ChunkSource(v, t), DefaultMaxChars)]

BlankPage == [emb |-> <<>>, ocr |-> <<>>]
PageKinds ==
    {BlankPage,
     [emb |-> <<>>, ocr |-> <<"a">>],
     [emb |-> <<SP>>, ocr |-> <<SP>>],
     [emb |-> <<"a">>, ocr |-> <<"a">>],
     [emb |-> ErrorWord, ocr |-> ErrorWord]}
Docs ==
    {[i \in 1..lead |-> BlankPage] \o tail :
        lead \in {0, EndPage}, tail \in BSeq(PageKinds, MaxPages)}
Faults == {"none", "open", "get_text", "convert", "ocr"}
RawResults == {<<LB, RB>>, <<"1", NL>>, <<"a">>}
TexFiles == {<<BS, "a", LB, "a", RB, SP, "a", NL, "a", NL>>}

InitRun ==
    /\ variant \in {"hello", "main"}
    /\ path_exists \in BOOLEAN
    /\ path_is_pdf \in BOOLEAN
    /\ pages \in Docs
    /\ fault \in Faults
    /\ pc = "start"
    /\ exit_stage = "none"
    /\ pdf_text = <<>> /\ raised = FALSE /\ doc_open = FALSE
    /\ tasks = NoTasks /\ orch_input = NoTasks /\ raw = <<>>
    /\ meta_file = <<>> /\ meta_exists = FALSE /\ qa_file = "absent"
    /\ runs = 1
    /\ stages = <<>> /\ left_open = {}
    /\ file = <<>> /\ readable = FALSE /\ max_words = 0 /\ word_count = 0
    /\ file0 = <<>> /\ wrote = FALSE /\ calls = 0
    /\ TrimIdle

\* variant: the extension of the path is not looked at
validate_pdf_exists_only(exists, is_pdf) == exists

\* validate_pdf returns True; a missing path or one that does not end in
\* .pdf calls sys.exit(1)
validate_pdf(exists, is_pdf) == exists /\ is_pdf

ValidatePdf ==
    /\ pc = "start"
    /\ stages' = Append(stages, "validate")
    /\ IF validate_pdf(path_exists, path_is_pdf)
       THEN pc' = "validated" /\ exit_stage' = exit_stage
       ELSE pc' = "exited" /\ exit_stage' = "validate"
    /\ UNCHANGED <<chunkVars, trimVars, pdfVars, pdf_text, raised, doc_open,
                   tasks, orch_input, raw, meta_file, meta_exists, qa_file,
                   runs, left_open>>

\* pdf_text = extract_pdf_text(...) and the check that follows it
ExtractText ==
    /\ pc = "validated"
    /\ stages' = Append(stages, "extract")
    /\ LET r == extract_pdf_text(variant, pages, fault)
       IN  /\ pdf_text' = r.text
           /\ raised' = r.raised
           /\ doc_open' = r.doc_open
           /\ IF r.raised
              THEN pc' = "crashed" /\ exit_stage' = exit_stage
              ELSE IF ExitsAfterExtract(variant, r.text)
              THEN pc' = "exited" /\ exit_stage' = "extract"
              ELSE pc' = "extracted" /\ exit_stage' = exit_stage
    /\ UNCHANGED <<chunkVars, trimVars, pdfVars, tasks, orch_input, raw,
                   meta_file, meta_exists, qa_file, runs, left_open>>

\* tasks = create_tasks(pdf_text, guideline_code)
CreateTasks ==
    /\ pc = "extracted"
    /\ stages' = Append(stages, "tasks")
    /\ left_open' = left_open
                       \cup CreateTasksOpens(variant, meta_exists, meta_file,
                                             qa_file)
    /\ IF CreateTasksRaises(variant, meta_exists, meta_file, qa_file)
       THEN pc' = "crashed" /\ tasks' = tasks
       ELSE pc' = "tasks" /\ tasks' = create_tasks(variant, pdf_text)
    /\ UNCHANGED <<chunkVars, trimVars, pdfVars, exit_stage, pdf_text, raised,
                   doc_open, orch_input, raw, meta_file, meta_exists, qa_file,
                   runs>>

\* results = crew.kickoff(): the orchestrator fails ...
KickoffFails ==
    /\ pc = "tasks"
    /\ stages' = Append(stages, "kickoff")
    /\ orch_input' = tasks
    /\ pc' = "exited"
    /\ exit_stage' = "kickoff"
    /\ UNCHANGED <<chunkVars, trimVars, pdfVars, pdf_text, raised, doc_open,
                   tasks, raw, meta_file, meta_exists, qa_file, runs,
                   left_open>>

\* ... or returns, having written the output files of its tasks or not
KickoffReturns ==
    /\ pc = "tasks"
    /\ stages' = Append(stages, "kickoff")
    /\ orch_input' = tasks
    /\ raw' \in RawResults
    /\ \/ file' \in TexFiles /\ readable' = TRUE
       \/ file' = file /\ readable' = readable
    /\ IF variant = "hello"
       THEN qa_file' \in {"absent", "json", "text"}
       ELSE qa_file' = qa_file
    /\ pc' = "kickoff_done"
    /\ UNCHANGED <<chunkVars, max_words, word_count, file0, wrote, calls,
                   pdfVars, exit_stage, pdf_text, raised, doc_open, tasks,
                   meta_file, meta_exists, runs, left_open>>

\* json.loads of the first raw result; metadata.json gets the parsed value
\* or, on JSONDecodeError, the raw text
\* variant: a result that is not JSON is dropped
metadata_text_dropping_raw(r) ==
    IF json_loads(r).ok THEN json_dump(json_loads(r)) ELSE <<>>

\* what is written to metadata.json for the raw result r
metadata_text(r) ==
    IF json_loads(r).ok THEN json_dump(json_loads(r)) ELSE r

ProcessMetadata ==
    /\ pc = "kickoff_done"
    /\ stages' = Append(stages, "metadata")
    /\ meta_file' = metadata_text(raw)
    /\ meta_exists' = TRUE
    /\ pc' = "metadata_done"
    /\ UNCHANGED <<chunkVars, trimVars, pdfVars, exit_stage, pdf_text, raised,
                   doc_open, tasks, orch_input, raw, qa_file, runs, left_open>>

\* hello.py: the QA report is loaded and printed; a missing or invalid
\* report is reported and the run goes on
\* (json.load(open(...)): the file object is never closed by the code)
ProcessQA ==
    /\ pc = "metadata_done"
    /\ variant = "hello"
    /\ stages' = Append(stages, "qa")
    /\ left_open' = IF qa_file = "absent" THEN left_open
                    ELSE left_open \cup {"qa_report"}
    /\ pc' = "qa_done"
    /\ UNCHANGED <<chunkVars, trimVars, pdfVars, exit_stage, pdf_text, raised,
                   doc_open, tasks, orch_input, raw, meta_file, meta_exists,
                   qa_file, runs>>

\* trim_latex_content(<output>.tex, max_words=...) and return results
TrimAndReturn ==
    /\ \/ pc = "metadata_done" /\ variant = "main"
       \/ pc = "qa_done" /\ variant = "hello"
    /\ LET r == trim_latex_content(file, readable, TrimWords(variant))
       IN  /\ file' = r.file
           /\ wrote' = r.wrote
           /\ word_count' = r.wc
    /\ file0' = file
    /\ max_words' = TrimWords(variant)
    /\ calls' = calls + 1
    /\ stages' = Append(stages, "trim")
    /\ pc' = "returned"
    /\ UNCHANGED <<chunkVars, readable, pdfVars, exit_stage, pdf_text, raised,
                   doc_open, tasks, orch_input, raw, meta_file, meta_exists,
                   qa_file, runs, left_open>>

\* the script is started again in the same working directory
NewRun ==
    /\ pc \in {"returned", "exited", "crashed"}
    /\ runs < MaxRuns
    /\ runs' = runs + 1
    /\ pc' = "start"
    /\ exit_stage' = "none"
    /\ pdf_text' = <<>> /\ raised' = FALSE /\ doc_open' = FALSE
    /\ tasks' = NoTasks /\ orch_input' = NoTasks /\ raw' = <<>>
    /\ max_words' = 0 /\ word_count' = 0 /\ file0' = file /\ wrote' = FALSE
    /\ calls' = 0
    /\ stages' = <<>> /\ left_open' = {}
    /\ UNCHANGED <<chunkVars, file, readable, pdfVars, meta_file, meta_exists,
                   qa_file>>

NextRun ==
    \/ ValidatePdf
    \/ ExtractText
    \/ CreateTasks
    \/ KickoffFails
    \/ KickoffReturns
    \/ ProcessMetadata
    \/ ProcessQA
    \/ TrimAndReturn
    \/ NewRun

SpecRun == InitRun /\ [][NextRun]_vars

(* ============================== claims ================================= *)
CeilDiv(a, b) == (a + b - 1) \div b

IsPrefix(s, t) == Len(s) <= Len(t) /\ SubSeq(t, 1, Len(s)) = s

\* C1: the chunks returned by chunk_text(T, M), concatenated in order, give
\* back T exactly: each chunk is the substring of T that starts where the
\* previous chunk ended (contiguous, no overlap, no gap).
C1_ConcatReconstructs ==
    chunked =>
        /\ Join(chunks) = text
        /\ \A k \in DOMAIN chunks :
              chunks[k] = SubSeq(text, Len(JoinRange(chunks, 1, k - 1)) + 1,
                                 Len(JoinRange(chunks, 1, k)))

C1_Witness ==
    /\ chunked
    /\ Len(chunks) >= 2
    /\ Len(chunks[Len(chunks)]) < max_chars

\* C2: chunk_text(T, M) returns exactly ceil(len(T)/M) chunks, none longer
\* than M characters; the empty string yields the empty sequence.
C2_CountAndSize ==
    chunked =>
        /\ Len(chunks) = CeilDiv(Len(text), max_chars)
        /\ \A k \in DOMAIN chunks : Len(chunks[k]) <= max_chars
        /\ (text = <<>> => chunks = <<>>)

C2_Witness ==
    /\ chunked
    /\ Len(text) % max_chars # 0
    /\ Len(chunks) >= 2
    /\ \E k \in DOMAIN chunks : Len(chunks[k]) = max_chars

\* C3: when the estimated word count is at or below the target, a call of
\* trim_latex_content does not open the file for writing and leaves it
\* byte-identical, on every call.
C3_NoOpUnderBudget ==
    (calls > 0 /\ word_count <= max_words) => (file = file0 /\ ~wrote)

C3_Witness ==
    /\ calls >= 2
    /\ readable
    /\ word_count > 0
    /\ word_count = max_words
    /\ file = file0

\* C4: when the estimate exceeds the target, the file is overwritten with
\* exactly its first floor(total_lines * target / estimate) lines, in order
\* and unchanged.
C4_KeepsFloorLines ==
    (calls > 0 /\ word_count > max_words) =>
        /\ wrote
        /\ file = Join(SubSeq(readlines(file0), 1,
                              KeepExact(Len(readlines(file0)),
                                        max_words, word_count)))

Example ==
    <<BS, BS, "s", "e", "c", "t", "i", "o", "n", LB, "I", "n", "t", "r", "o",
      RB, SP, "w", "o", "r", "d", "1", SP, "w", "o", "r", "d", "2">>

CountedControlTokens(s) ==
    {i \in 1..(Len(s) - 1) :
        /\ s[i] = BS
        /\ (i = 1 \/ IsWhite(s[i - 1]))
        /\ ~IsWhite(s[i + 1])}

C6_StripsAllControlSequences ==
    (calls > 0 /\ readable) =>
        /\ WordsOf(Example) = 2
        /\ word_count = SplitCount(ReSub(file0, 1))
        /\ CountedControlTokens(ReSub(file0, 1)) = {}

\* C7: when the file cannot be read, the estimate is 0, trim_latex_content
\* treats the document as under budget, does not open the file for writing
\* and leaves it unchanged.
C7_UnreadableSkipsTrim ==
    (calls > 0 /\ ~readable) => (word_count = 0 /\ ~wrote /\ file = file0)

C7_Witness ==
    /\ calls > 0
    /\ ~readable
    /\ WordsOf(file) > max_words
    /\ Len(readlines(file)) >= 2

\* extract_pdf_text has returned (or raised) in the current run
Extracted ==
    /\ pc \notin {"idle", "start", "validated"}
    /\ ~(pc = "exited" /\ exit_stage = "validate")

\* the pages the extraction is about, first to last
C8_LastPage == IF variant = "main" THEN Min(EndPage, Len(pages)) ELSE Len(pages)

C8_Embedded(n) ==
    Join([k \in 1..n |->
             IF pages[k].emb = <<>> THEN <<>> ELSE pages[k].emb \o <<NL>>])

C8_Ocr(n) == Join([k \in 1..n |-> pages[k].ocr \o <<NL>>])

\* C8: when no call fails, extract_pdf_text returns the embedded page text
\* if it is not blank; otherwise the OCR text of the same pages, in page
\* order, if that is not blank; otherwise the "no text extracted" sentinel;
\* and it does not raise.
C8_EmbeddedThenOcrThenSentinel ==
    Extracted =>
        LET e == C8_Embedded(C8_LastPage)
            o == C8_Ocr(C8_LastPage)
        IN  /\ (fault \in {"none", "convert", "ocr"} /\ ~IsBlank(e))
                   => pdf_text = e
            /\ (fault = "none" /\ IsBlank(e) /\ ~IsBlank(o)) => pdf_text = o
            /\ (fault = "none" /\ IsBlank(e) /\ IsBlank(o))
                   => pdf_text = Sentinel(variant)
            /\ fault = "none" => ~raised

C8_Witness ==
    /\ Extracted
    /\ fault = "none"
    /\ C8_Embedded(C8_LastPage) # <<>>
    /\ IsBlank(C8_Embedded(C8_LastPage))
    /\ ~IsBlank(C8_Ocr(C8_LastPage))
    /\ pdf_text = C8_Ocr(C8_LastPage)

\* the failing call of this run is reached by the extraction
C9_FaultReached ==
    \/ fault = "open"
    \/ fault = "get_text" /\ C8_LastPage > 0
    \/ fault = "convert" /\ IsBlank(C8_Embedded(C8_LastPage))
    \/ fault = "ocr" /\ IsBlank(C8_Embedded(C8_LastPage)) /\ C8_LastPage > 0

\* C9: extract_pdf_text never raises to its caller: a failure while opening
\* the document, reading pages, rasterizing or running OCR is returned as a
\* string that starts with "Error extracting text from PDF:".
C9_FailuresReturnedAsText ==
    Extracted =>
        /\ ~raised
        /\ C9_FaultReached => IsPrefix(ErrorMarker, pdf_text)

C9_Witness ==
    /\ Extracted
    /\ fault = "ocr"
    /\ IsPrefix(ErrorMarker, pdf_text)
    /\ pc = "tasks"

\* the text reached create_tasks and, once the orchestrator is called, the
\* orchestrator, as content
C10_PassedOn ==
    /\ exit_stage # "extract"
    /\ tasks.given =>
          /\ tasks.meta_text = pdf_text
          /\ Join(tasks.chunks) = pdf_text
    /\ orch_input.given => orch_input = tasks
    /\ pc \in {"tasks", "kickoff_done", "metadata_done", "qa_done",
               "returned"} => tasks.given
    /\ (pc \in {"kickoff_done", "metadata_done", "qa_done", "returned"}
           \/ exit_stage = "kickoff") => orch_input.given

\* C10 as stated: when extract_pdf_text returns its error string or its
\* no-text sentinel, the run does not exit but passes the string on to
\* create_tasks and the orchestrator.
C10_ExtractionErrorsNonFatal ==
    (Extracted /\ (IsPrefix(ErrorMarker, pdf_text)
                      \/ pdf_text = Sentinel(variant)))
        => C10_PassedOn

\* C10 as amended: that holds in hello.py; in main.py it holds for the
\* no-text sentinel, while the error string makes the run exit after the
\* extraction, before create_tasks and the orchestrator call.
C10_NonFatalExceptErrorInMain ==
    /\ (Extracted /\ pdf_text = Sentinel(variant)) => C10_PassedOn
    /\ (Extracted /\ IsPrefix(ErrorMarker, pdf_text)) =>
          IF variant = "hello" THEN C10_PassedOn
          ELSE /\ pc = "exited"
               /\ exit_stage = "extract"
               /\ ~tasks.given
               /\ ~orch_input.given

C10_Witness ==
    /\ variant = "hello"
    /\ IsPrefix(ErrorMarker, pdf_text)
    /\ orch_input.given
    /\ orch_input.meta_text = pdf_text
    /\ pc = "returned"

InSeq(x, q) == \E i \in 1..Len(q) : q[i] = x

\* C11: when the first task's raw result is not valid JSON, the raw text is
\* written verbatim to metadata.json and the run goes on through the QA
\* report (hello.py) and the trimming to the return, without exiting.
C11_RawFallbackContinues ==
    /\ [](  (pc \in {"metadata_done", "qa_done", "returned"}
                /\ ~json_loads(raw).ok)
            => /\ meta_exists
               /\ meta_file = raw
               /\ exit_stage = "none"
               /\ pc = "returned" =>
                     /\ calls = 1
                     /\ stages[Len(stages)] = "trim"
                     /\ variant = "hello" => InSeq("qa", stages))
    /\ [][ (pc \in {"kickoff_done", "metadata_done", "qa_done"}
               /\ ~json_loads(raw).ok)
           => pc' \in {"metadata_done", "qa_done", "returned"} ]_vars

C11_Witness ==
    /\ pc = "returned"
    /\ variant = "hello"
    /\ ~json_loads(raw).ok
    /\ meta_file = raw
    /\ qa_file = "json"

\* the stages the claim names, in its order
C12_Order ==
    <<"validate", "extract", "tasks", "kickoff", "metadata", "trim">>

\* C12: in every run the stages are entered in the order validate, extract,
\* build tasks, call orchestrator, write metadata, trim; a missing or
\* non-.pdf path exits before extraction starts; a failed orchestrator call
\* exits with no metadata written and no trimming performed.
C12_StageOrderAndGates ==
    /\ IsPrefix(SelectSeq(stages, LAMBDA x : x # "qa"), C12_Order)
    /\ (stages # <<>> /\ ~(path_exists /\ path_is_pdf)) =>
          /\ pc = "exited"
          /\ exit_stage = "validate"
          /\ stages = <<"validate">>
          /\ pdf_text = <<>>
    /\ exit_stage = "kickoff" =>
          /\ pc = "exited"
          /\ ~InSeq("metadata", stages)
          /\ ~InSeq("trim", stages)
          /\ calls = 0
          /\ ~wrote

C12_Witness ==
    /\ pc = "exited"
    /\ exit_stage = "kickoff"
    /\ runs = 2
    /\ meta_exists
    /\ stages = <<"validate", "extract", "tasks", "kickoff">>

\* C13: at the end of every operation no file handle that the operation
\* opened is still open: the PDF document of extract_pdf_text and the
\* metadata.json and QA report files read by create_tasks and by the
\* post-processing have been closed by the code that opened them.
C13_HandlesReleased ==
    /\ ~doc_open
    /\ left_open = {}

\* C14: main.py exits after the extraction only when the extraction failed
\* or gave blank text; successfully extracted non-blank text, whatever its
\* words, goes on to create_tasks.
C14_ExitOnlyOnFailure ==
    (variant = "main" /\ Extracted /\ ~C9_FaultReached /\ ~IsBlank(pdf_text))
        => exit_stage # "extract"

\* C15: in hello.py the metadata.json left by an earlier run, parsed JSON
\* or raw text, never makes create_tasks of a later run fail.
C15_MetadataNeverBreaksLaterRun ==
    (variant = "hello" /\ meta_exists /\ qa_file # "text"
        /\ InSeq("tasks", stages))
        => pc # "crashed"

====
